---- MODULE Spec2Model ----
(***************************************************************************)
(* Model of grid::Grid<T, Dimensionality> (include/grid.hpp): a grid of    *)
(* dimensionality n is the vector subgrids_ of its children, modelled as a *)
(* sequence; a child is a grid of dimensionality n - 1, or a leaf of type  *)
(* T when n = 1.  C++ indices are 0-based, sequence indices 1-based: child *)
(* i of the code is self[i + 1] here.                                      *)
(***************************************************************************)
EXTENDS Integers, Sequences, FiniteSets, TLC

\* ------------------------------------------------------------- bounds
MaxExtent == 2    \* extents, literal lengths and indices range over 0..MaxExtent
MaxVal == 1       \* leaves hold 0..MaxVal
MaxOps == 1       \* calls that may change the contents of a grid, per run

\* The instantiations Grid<T, 1>, Grid<T, 2> and Grid<T, 3>.
Dimensionalities == {1, 2, 3}
Values == 0..MaxVal
Slots == {"a", "b"}

\* T{} of an arithmetic T: emplace_back() with no arguments value-initialises.
DefaultValue == 0

\* ------------------------------------------------------------- results
Ok(v) == [err |-> "none", val |-> v]
Err(e) == [err |-> e, val |-> <<>>]

\* ------------------------------------------------------------- size
RECURSIVE size(_, _, _)
\* Grid::size(dimension) of a grid self of dimensionality n.
size(self, n, dimension) ==
    IF dimension = 0 THEN Ok(Len(self))
    ELSE IF Len(self) = 0 THEN Ok(0)
    ELSE IF n > 1 THEN size(self[1], n - 1, dimension - 1)
    ELSE Err("AxisOutOfRange")

\* ------------------------------------------------------------- construction
RECURSIVE SizeCtorSameExtent(_, _)
\* The whole pack forwarded to the children instead of its tail.
SizeCtorSameExtent(n, dimensions) ==
    LET currentDimension == dimensions[1] IN
    IF currentDimension = 0 THEN Err("InvalidShape")
    ELSE IF n = 1 THEN Ok([subgridIdx \in 1..currentDimension |-> DefaultValue])
    ELSE LET child == SizeCtorSameExtent(n - 1, dimensions) IN
         IF child.err # "none" THEN child
         ELSE Ok([subgridIdx \in 1..currentDimension |-> child.val])

RECURSIVE SizeCtor(_, _)
\* Grid(Dimensions... dimensions): the first extent is checked, then every
\* child is emplaced from the remaining extents.
SizeCtor(n, dimensions) ==
    LET currentDimension == dimensions[1] IN
    IF currentDimension = 0 THEN Err("InvalidShape")
    ELSE IF n = 1 THEN Ok([subgridIdx \in 1..currentDimension |-> DefaultValue])
    ELSE LET child == SizeCtor(n - 1, Tail(dimensions)) IN
         IF child.err # "none" THEN child
         ELSE Ok([subgridIdx \in 1..currentDimension |-> child.val])

\* The constructor without its check for an empty list.
LiteralCtorAcceptsEmpty(n, subgrids) ==
    IF n > 1 /\ \E i \in 1..Len(subgrids) :
                   size(subgrids[i], n - 1, 0).val # size(subgrids[1], n - 1, 0).val
    THEN Err("RaggedShape")
    ELSE Ok(subgrids)

\* Grid(std::initializer_list<ValueType> subgrids): children are grids that
\* were already constructed (leaves when n = 1).
LiteralCtor(n, subgrids) ==
    IF Len(subgrids) = 0 THEN Err("EmptyShape")
    ELSE IF n > 1 /\ \E i \in 1..Len(subgrids) :
                        size(subgrids[i], n - 1, 0).val # size(subgrids[1], n - 1, 0).val
         THEN Err("RaggedShape")
    ELSE Ok(subgrids)

RECURSIVE BuildLiteral(_, _)
\* A nested braced literal: the inner braces construct the children, left to
\* right, before the outer constructor runs; the first failure propagates.
BuildLiteral(n, lit) ==
    IF n = 1 THEN LiteralCtor(1, lit)
    ELSE LET cs == [i \in 1..Len(lit) |-> BuildLiteral(n - 1, lit[i])]
             bad == {i \in 1..Len(lit) : cs[i].err # "none"}
         IN IF bad # {}
            THEN cs[CHOOSE i \in bad : \A j \in bad : i <= j]
            ELSE LiteralCtor(n, [i \in 1..Len(lit) |-> cs[i].val])

\* ------------------------------------------------------------- equality
\* A comparison of the sizes alone.
EqualsSizes(n, x, y) == Len(x) = Len(y)

RECURSIVE Equals(_, _, _)
\* operator== (defaulted): std::vector compares the sizes, then the children
\* pairwise with their own operator==.
Equals(n, x, y) ==
    /\ Len(x) = Len(y)
    /\ \A i \in 1..Len(x) :
          IF n = 1 THEN x[i] = y[i] ELSE Equals(n - 1, x[i], y[i])

\* ------------------------------------------------------------- traversal
\* Axis selectors: grid::NoDimension, or a value convertible to std::size_t.
NoDimension == [kind |-> "NoDimension", idx |-> 0]
Fixed(k) == [kind |-> "Size", idx |-> k]

\* One call of the predicate on a leaf holding v: the visitors of the model
\* stop on one value and may overwrite the leaf they are given.
Invoke(predicate, v) ==
    [stop |-> predicate.stops /\ v = predicate.stopVal,
     val |-> IF predicate.writes THEN predicate.writeVal ELSE v]

\* The lambda reduce() wraps its callable in: it calls the callable on the
\* leaf and always returns false.
ReduceLambda(callable) ==
    [stops |-> FALSE, stopVal |-> 0,
     writes |-> callable.writes, writeVal |-> callable.writeVal]

\* The slot counted from the wrong end: coords[Dimensionality - 1].
CoordSlotFromEnd(CoordinatesCount, n) == n

\* The slot of coords a level of dimensionality n writes (0-based in the code).
CoordSlot(CoordinatesCount, n) == (CoordinatesCount - n) + 1

RECURSIVE traverseImpl(_, _, _, _, _, _, _)
RECURSIVE iterate(_, _, _, _, _, _, _, _, _)
RECURSIVE iterateIgnoringStop(_, _, _, _, _, _, _, _, _)

\* The loop with the "return true" of both branches left out.
iterateIgnoringStop(self, n, coords, predicate, dimensions, ub, path, p, log) ==
    IF p >= Len(self)
    THEN [ret |-> FALSE, log |-> log, self |-> self, coords |-> coords,
          abort |-> FALSE, oob |-> FALSE]
    ELSE
      LET c1 == [coords EXCEPT ![CoordSlot(Len(coords), n)] = p]
          r == IF n > 1
               THEN traverseImpl(self[p + 1], n - 1, c1, predicate,
                                 Tail(dimensions), ub, Append(path, p))
               ELSE LET i == Invoke(predicate, self[p + 1]) IN
                    [ret |-> i.stop,
                     log |-> << [coords |-> c1, ref |-> Append(path, p),
                                 val |-> self[p + 1], stop |-> i.stop] >>,
                     self |-> i.val, coords |-> c1, abort |-> FALSE, oob |-> FALSE]
          self1 == [self EXCEPT ![p + 1] = r.self]
      IN IF r.abort
         THEN [r EXCEPT !.log = log \o r.log, !.self = self1]
         ELSE LET rest == iterateIgnoringStop(self1, n, r.coords, predicate,
                                              dimensions, ub, path, p + 1,
                                              log \o r.log)
              IN [rest EXCEPT !.oob = rest.oob \/ r.oob]

\* The range-for of the NoDimension branch from position p on; log holds the
\* predicate calls made so far in this loop.
iterate(self, n, coords, predicate, dimensions, ub, path, p, log) ==
    IF p >= Len(self)
    THEN [ret |-> FALSE, log |-> log, self |-> self, coords |-> coords,
          abort |-> FALSE, oob |-> FALSE]
    ELSE
      LET c1 == [coords EXCEPT ![CoordSlot(Len(coords), n)] = p]
          r == IF n > 1
               THEN traverseImpl(self[p + 1], n - 1, c1, predicate,
                                 Tail(dimensions), ub, Append(path, p))
               ELSE LET i == Invoke(predicate, self[p + 1]) IN
                    [ret |-> i.stop,
                     log |-> << [coords |-> c1, ref |-> Append(path, p),
                                 val |-> self[p + 1], stop |-> i.stop] >>,
                     self |-> i.val, coords |-> c1, abort |-> FALSE, oob |-> FALSE]
          self1 == [self EXCEPT ![p + 1] = r.self]
      IN IF r.abort \/ r.ret
         THEN [r EXCEPT !.log = log \o r.log, !.self = self1]
         ELSE LET rest == iterate(self1, n, r.coords, predicate, dimensions, ub,
                                  path, p + 1, log \o r.log)
              IN [rest EXCEPT !.oob = rest.oob \/ r.oob]

\* traverseImpl whose fixed-index branch drops the result of the level below
\* instead of returning it.
traverseImplFixedDropsStop(self, n, coords, predicate, dimensions, ub, path) ==
    IF dimensions[1].kind = "NoDimension"
    THEN iterate(self, n, coords, predicate, dimensions, ub, path, 0, <<>>)
    ELSE
      LET firstDim == dimensions[1].idx
          c1 == [coords EXCEPT ![CoordSlot(Len(coords), n)] = firstDim]
      IN IF firstDim >= Len(self)
         THEN IF ub.kind = "abort"
              THEN [ret |-> FALSE, log |-> <<>>, self |-> self, coords |-> c1,
                    abort |-> TRUE, oob |-> TRUE]
              ELSE IF n > 1
              THEN LET r == traverseImpl(<<>>, n - 1, c1, predicate,
                                         Tail(dimensions), ub, Append(path, firstDim))
                   IN [r EXCEPT !.self = self, !.oob = TRUE, !.ret = FALSE]
              ELSE LET i == Invoke(predicate, ub.val) IN
                   [ret |-> i.stop,
                    log |-> << [coords |-> c1, ref |-> Append(path, firstDim),
                                val |-> ub.val, stop |-> i.stop] >>,
                    self |-> self, coords |-> c1, abort |-> FALSE, oob |-> TRUE]
         ELSE IF n > 1
              THEN LET r == traverseImpl(self[firstDim + 1], n - 1, c1, predicate,
                                         Tail(dimensions), ub, Append(path, firstDim))
                   IN [r EXCEPT !.self = [self EXCEPT ![firstDim + 1] = r.self],
                                !.ret = FALSE]
              ELSE LET i == Invoke(predicate, self[firstDim + 1]) IN
                   [ret |-> i.stop,
                    log |-> << [coords |-> c1, ref |-> Append(path, firstDim),
                                val |-> self[firstDim + 1], stop |-> i.stop] >>,
                    self |-> [self EXCEPT ![firstDim + 1] = i.val],
                    coords |-> c1, abort |-> FALSE, oob |-> FALSE]

\* Grid::traverseImpl on a grid self of dimensionality n.  path is the chain
\* of child positions that led to self: it identifies the storage a reference
\* points to.  subgrids_[firstDim] with firstDim >= size() is undefined
\* behaviour; ub picks what the build does there: the process is aborted, or
\* the read goes past the end of the vector and yields ub.val for a leaf and
\* zeroed memory (a grid with no children) for a subgrid.
traverseImpl(self, n, coords, predicate, dimensions, ub, path) ==
    IF dimensions[1].kind = "NoDimension"
    THEN iterate(self, n, coords, predicate, dimensions, ub, path, 0, <<>>)
    ELSE
      LET firstDim == dimensions[1].idx
          c1 == [coords EXCEPT ![CoordSlot(Len(coords), n)] = firstDim]
      IN IF firstDim >= Len(self)
         THEN IF ub.kind = "abort"
              THEN [ret |-> FALSE, log |-> <<>>, self |-> self, coords |-> c1,
                    abort |-> TRUE, oob |-> TRUE]
              ELSE IF n > 1
              THEN LET r == traverseImpl(<<>>, n - 1, c1, predicate,
                                         Tail(dimensions), ub, Append(path, firstDim))
                   IN [r EXCEPT !.self = self, !.oob = TRUE]
              ELSE LET i == Invoke(predicate, ub.val) IN
                   [ret |-> i.stop,
                    log |-> << [coords |-> c1, ref |-> Append(path, firstDim),
                                val |-> ub.val, stop |-> i.stop] >>,
                    self |-> self, coords |-> c1, abort |-> FALSE, oob |-> TRUE]
         ELSE IF n > 1
              THEN LET r == traverseImpl(self[firstDim + 1], n - 1, c1, predicate,
                                         Tail(dimensions), ub, Append(path, firstDim))
                   IN [r EXCEPT !.self = [self EXCEPT ![firstDim + 1] = r.self]]
              ELSE LET i == Invoke(predicate, self[firstDim + 1]) IN
                   [ret |-> i.stop,
                    log |-> << [coords |-> c1, ref |-> Append(path, firstDim),
                                val |-> self[firstDim + 1], stop |-> i.stop] >>,
                    self |-> [self EXCEPT ![firstDim + 1] = i.val],
                    coords |-> c1, abort |-> FALSE, oob |-> FALSE]

\* Grid::traverse: coords{} is zero-initialised, then traverseImpl runs.
traverse(self, n, predicate, dimensions, ub) ==
    traverseImpl(self, n, [i \in 1..n |-> 0], predicate, dimensions, ub, <<>>)

\* Grid::reduce: traverse with the wrapping lambda; the result is dropped.
reduce(self, n, callable, dimensions, ub) ==
    traverse(self, n, ReduceLambda(callable), dimensions, ub)

\* ------------------------------------------------------------- access
RECURSIVE Store(_, _, _)
\* self[i0][i1]...[ik] = v through operator[] (or through the references a
\* range-for over begin()/end() yields): v replaces the child the path names,
\* a leaf when the path has as many indices as self has dimensions and a
\* whole subgrid (copy assignment of the child) when it has fewer.
Store(self, path, v) ==
    IF Len(path) = 1
    THEN [self EXCEPT ![path[1] + 1] = v]
    ELSE [self EXCEPT ![path[1] + 1] = Store(self[path[1] + 1], Tail(path), v)]

RECURSIVE InRange(_, _)
\* Every index of the path is below the size of the vector it indexes.
InRange(self, path) ==
    IF Len(path) = 0 THEN TRUE
    ELSE IF path[1] >= Len(self) THEN FALSE
    ELSE InRange(self[path[1] + 1], Tail(path))

\* self.at(i0).at(i1)...at(ik) = v: std::vector::at throws std::out_of_range
\* at the first index that is not below the size.
AtStore(self, path, v) ==
    IF InRange(self, path) THEN Ok(Store(self, path, v))
    ELSE Err("IndexOutOfRange")

\* for (auto& child : self) child = v.
IterStore(self, v) == [i \in 1..Len(self) |-> v]

\* ------------------------------------------------------------- copying
\* An aliasing copy: the new object refers to the source's storage.
CopyCtorShared(h, r, dst, src) ==
    [heap |-> h, ref |-> [r EXCEPT ![dst] = r[src]]]

\* Grid(const Grid&) = default: std::vector's copy constructor allocates new
\* storage and copies every child, each with its own copy constructor.
CopyCtor(h, r, dst, src) ==
    [heap |-> Append(h, h[r[src]]), ref |-> [r EXCEPT ![dst] = Len(h) + 1]]

\* operator=(const Grid&) = default: the children of src are copied into the
\* storage of dst.
CopyAssignment(h, r, dst, src) ==
    [heap |-> [h EXCEPT ![r[dst]] = h[r[src]]], ref |-> r]

\* ------------------------------------------------------------- inputs
RECURSIVE Braces(_)
\* Nested braces of depth n with 0..MaxExtent entries at every level, empty
\* braces included, every leaf written 0.
Braces(n) ==
    IF n = 1
    THEN {[i \in 1..len |-> 0] : len \in 0..MaxExtent}
    ELSE UNION {[1..len -> Braces(n - 1)] : len \in 0..MaxExtent}

RECURSIVE Fill(_, _, _)
\* The leaf at coordinate c is given the value (c[1] + ... + c[n]) modulo
\* the number of values (offset by o), so that leaves differ along every axis.
Fill(lit, n, o) ==
    IF n = 1
    THEN [i \in 1..Len(lit) |-> (o + i - 1) % (MaxVal + 1)]
    ELSE [i \in 1..Len(lit) |-> Fill(lit[i], n - 1, o + i - 1)]

\* The nested literals a grid of dimensionality n is constructed from.
Literals(n) == {Fill(lit, n, 0) : lit \in Braces(n)}

Extents(n) == [1..n -> 0..MaxExtent]
Indices(n) == [1..n -> 0..MaxExtent]
Selectors(n) == [1..n -> {NoDimension} \cup {Fixed(k) : k \in 0..MaxExtent}]
Callables == {[writes |-> FALSE, writeVal |-> 0]}
             \cup {[writes |-> TRUE, writeVal |-> x] : x \in {MaxVal}}
Predicates ==
    {[stops |-> st, stopVal |-> v, writes |-> c.writes, writeVal |-> c.writeVal] :
        st \in {TRUE}, v \in Values, c \in Callables}
    \cup {ReduceLambda(c) : c \in Callables}
Writers == {c \in Callables : c.writes}
\* The predicate that overwrites every leaf up to the first default one.
FindAndWrite == {p \in Predicates : p.writes /\ p.stops /\ p.stopVal = DefaultValue}
UBChoices == {[kind |-> "abort", val |-> 0]}
             \cup {[kind |-> "garbage", val |-> v] : v \in Values}

\* The grids Grid<T, n>(d1, ..., dn) with every extent at least 1.
SizedGrids(n) ==
    {SizeCtor(n, d).val : d \in {e \in Extents(n) : \A i \in 1..n : e[i] >= 1}}

\* ------------------------------------------------------------- state
VARIABLES
    dim,    \* the Dimensionality the grids of this run are instantiated with
    heap,   \* the storage blocks allocated so far, each holding one grid
    ref,    \* slot -> index of its block in heap, 0 while no object exists
    last,   \* the last call: operation, slot, arguments, failure, result
    log,    \* the predicate calls of the last traverse or reduce, in order
    ops     \* calls made on the contents of the grids so far; the objects
            \* of a run are constructed and copied before the first of them

vars == <<dim, heap, ref, last, log, ops>>

Live(s) == ref[s] # 0
G(s) == heap[ref[s]]
Running == last.err # "Abort"
Call(op, s, args, err, ret) ==
    [op |-> op, slot |-> s, args |-> args, err |-> err, ret |-> ret]

Init ==
    /\ dim \in Dimensionalities
    /\ heap = <<>>
    /\ ref = [s \in Slots |-> 0]
    /\ last = Call("none", "a", <<>>, "none", 0)
    /\ log = <<>>
    /\ ops = 0

\* A constructor returned r for slot s: the object exists iff it did not throw.
Constructed(s, r) ==
    IF r.err = "none"
    THEN /\ heap' = Append(heap, r.val)
         /\ ref' = [ref EXCEPT ![s] = Len(heap) + 1]
    ELSE UNCHANGED <<heap, ref>>

ConstructBySize(s, dimensions) ==
    /\ Running /\ ~Live(s) /\ ops = 0
    /\ LET r == SizeCtor(dim, dimensions) IN
       /\ Constructed(s, r)
       /\ last' = Call("SizeCtor", s, dimensions, r.err, 0)
    /\ log' = <<>>
    /\ UNCHANGED <<dim, ops>>

ConstructLiteral(s, lit) ==
    /\ Running /\ ~Live(s) /\ ops = 0
    /\ LET r == BuildLiteral(dim, lit) IN
       /\ Constructed(s, r)
       /\ last' = Call("LiteralCtor", s, lit, r.err, 0)
    /\ log' = <<>>
    /\ UNCHANGED <<dim, ops>>

\* Grid dst{src};
CopyConstruct(dst, src) ==
    /\ Running /\ Live(src) /\ ~Live(dst) /\ ops = 0
    /\ LET c == CopyCtor(heap, ref, dst, src) IN
       /\ heap' = c.heap
       /\ ref' = c.ref
    /\ last' = Call("CopyCtor", dst, src, "none", 0)
    /\ log' = <<>>
    /\ UNCHANGED <<dim, ops>>

\* dst = src;
CopyAssign(dst, src) ==
    /\ Running /\ Live(src) /\ Live(dst) /\ dst # src /\ ops = 0
    /\ LET c == CopyAssignment(heap, ref, dst, src) IN
       /\ heap' = c.heap
       /\ ref' = c.ref
    /\ last' = Call("CopyAssign", dst, src, "none", 0)
    /\ log' = <<>>
    /\ UNCHANGED <<dim, ops>>

\* s[i0]...[i(dim-1)] = v, every index in range.
WriteLeaf(s, path, v) ==
    /\ Running /\ Live(s) /\ ops < MaxOps
    /\ InRange(G(s), path)
    /\ heap' = [heap EXCEPT ![ref[s]] = Store(G(s), path, v)]
    /\ last' = Call("operator[]", s, <<>>, "none", 0)
    /\ log' = <<>>
    /\ ops' = ops + 1
    /\ UNCHANGED <<dim, ref>>

\* s.at(i0)...at(i(dim-1)) = v.
AtWrite(s, path, v) ==
    /\ Running /\ Live(s) /\ ops < MaxOps
    /\ LET r == AtStore(G(s), path, v) IN
       /\ heap' = [heap EXCEPT ![ref[s]] = IF r.err = "none" THEN r.val ELSE @]
       /\ last' = Call("at", s, <<>>, r.err, 0)
    /\ log' = <<>>
    /\ ops' = ops + 1
    /\ UNCHANGED <<dim, ref>>

\* s[i0]...[ik] = Grid<T, dim-k-1>(extents...): a child subgrid is assigned.
AssignChild(s, path, child) ==
    /\ Running /\ Live(s) /\ ops < MaxOps
    /\ InRange(G(s), path)
    /\ heap' = [heap EXCEPT ![ref[s]] = Store(G(s), path, child)]
    /\ last' = Call("operator[]", s, <<>>, "none", 0)
    /\ log' = <<>>
    /\ ops' = ops + 1
    /\ UNCHANGED <<dim, ref>>

\* for (auto& child : s) child = v;
IterateAssign(s, v) ==
    /\ Running /\ Live(s) /\ ops < MaxOps
    /\ heap' = [heap EXCEPT ![ref[s]] = IterStore(G(s), v)]
    /\ last' = Call("begin/end", s, <<>>, "none", 0)
    /\ log' = <<>>
    /\ ops' = ops + 1
    /\ UNCHANGED <<dim, ref>>

\* x == y
Compare(x, y) ==
    /\ Running /\ Live(x) /\ Live(y)
    /\ last' = Call("operator==", x, y, "none", Equals(dim, G(x), G(y)))
    /\ log' = <<>>
    /\ UNCHANGED <<dim, heap, ref, ops>>

\* The state a traverse or reduce call leaves behind.
Traversed(op, s, predicate, dimensions, r) ==
    /\ heap' = [heap EXCEPT ![ref[s]] = r.self]
    /\ last' = Call(op, s, [predicate |-> predicate, dimensions |-> dimensions,
                             oob |-> r.oob],
                     IF r.abort THEN "Abort" ELSE "none", r.ret)
    /\ log' = r.log
    /\ ops' = ops + 1
    /\ UNCHANGED <<dim, ref>>

Traverse(s, predicate, dimensions, ub) ==
    /\ Running /\ Live(s) /\ ops < MaxOps
    /\ LET r == traverse(G(s), dim, predicate, dimensions, ub) IN
       Traversed("traverse", s, predicate, dimensions, r)

Reduce(s, callable, dimensions, ub) ==
    /\ Running /\ Live(s) /\ ops < MaxOps
    /\ LET r == reduce(G(s), dim, callable, dimensions, ub) IN
       Traversed("reduce", s, ReduceLambda(callable), dimensions, r)

\* ------------------------------------------------------------- specifications
\* Children a client can assign below slot s at a path of the given length.
ChildValues(len) == IF len = dim THEN Values ELSE SizedGrids(dim - len)

Build ==
    \/ \E s \in Slots, dimensions \in Extents(dim) : ConstructBySize(s, dimensions)
    \/ \E lit \in Literals(dim) : ConstructLiteral("a", lit)

Copy ==
    \/ CopyConstruct("b", "a")
    \/ \E dst, src \in Slots : CopyAssign(dst, src)

Write ==
    \/ \E s \in Slots, path \in Indices(dim), v \in Values : WriteLeaf(s, path, v)
    \/ \E s \in Slots, path \in Indices(dim), v \in Values : AtWrite(s, path, v)

Reshape ==
    \/ \E s \in Slots, len \in 1..(dim - 1) :
          \E path \in Indices(len), c \in ChildValues(len) : AssignChild(s, path, c)
    \/ \E s \in Slots, c \in ChildValues(1) : IterateAssign(s, c)

\* The container: construction, copies, element access, comparison.
Next ==
    \/ Build
    \/ Copy
    \/ Write
    \/ Reshape
    \/ \E x, y \in Slots : Compare(x, y)

Spec == Init /\ [][Next]_vars

\* The traversal engine on one grid, every selector and visitor.
NextTraverse ==
    \/ \E dimensions \in Extents(dim) : ConstructBySize("a", dimensions)
    \/ \E lit \in Literals(dim) : ConstructLiteral("a", lit)
    \/ \E p \in Predicates, d \in Selectors(dim), ub \in UBChoices :
          Traverse("a", p, d, ub)
    \/ \E c \in Callables, d \in Selectors(dim), ub \in UBChoices :
          Reduce("a", c, d, ub)

SpecTraverse == Init /\ [][NextTraverse]_vars

\* Two grids, one a copy of the other, and the calls that write leaves.
NextCopy ==
    \/ \E s \in Slots, dimensions \in Extents(dim) : ConstructBySize(s, dimensions)
    \/ Copy
    \/ \E s \in Slots, path \in Indices(dim), v \in Values : WriteLeaf(s, path, v)
    \/ \E s \in Slots, p \in FindAndWrite, d \in Selectors(dim), ub \in UBChoices :
          Traverse(s, p, d, ub)
    \/ \E s \in Slots, c \in Writers, d \in Selectors(dim), ub \in UBChoices :
          Reduce(s, c, d, ub)

SpecCopy == Init /\ [][NextCopy]_vars

\* ------------------------------------------------------------- vocabulary
RECURSIVE Leaves(_, _)
\* The coordinates (0-based index chains) of the leaves a grid holds.
Leaves(self, n) ==
    IF n = 1 THEN {<<i - 1>> : i \in 1..Len(self)}
    ELSE UNION {{<<i - 1>> \o c : c \in Leaves(self[i], n - 1)} : i \in 1..Len(self)}

RECURSIVE LeafAt(_, _)
LeafAt(self, c) ==
    IF Len(c) = 1 THEN self[c[1] + 1] ELSE LeafAt(self[c[1] + 1], Tail(c))

\* size(0), ..., size(n-1) as the grid reports them.
Dims(self, n) == [k \in 1..n |-> size(self, n, k - 1).val]

\* All coordinates of the box with the given extents.
Box(extents) ==
    {c \in [1..Len(extents) -> 0..(MaxExtent + 1)] : \A i \in 1..Len(extents) : c[i] < extents[i]}

\* Rectangular: the leaves fill exactly the box of the reported extents, so
\* all children of a depth agree on every remaining axis.
Rect(self, n) == Leaves(self, n) = Box(Dims(self, n))

LexLess(c, d) ==
    \E i \in 1..Len(c) : c[i] < d[i] /\ \A j \in 1..(i - 1) : c[j] = d[j]

CtorOps == {"SizeCtor", "LiteralCtor", "CopyCtor"}
TraversalOps == {"traverse", "reduce"}
ContentOps == {"operator[]", "at", "begin/end"} \cup TraversalOps

\* ------------------------------------------------------------- C1
\* The children a nested literal yields once its inner braces are built.
BuiltChildren(lit) == [i \in 1..Len(lit) |-> BuildLiteral(dim - 1, lit[i])]

\* C1: a nested literal of dimensionality above 1 whose children were all
\* constructed and of which two differ in extent along some axis at some
\* depth (their leaf coordinates differ) fails with RaggedShape and leaves
\* no grid.
C1_RaggedLiteralRejected ==
    (/\ last.op = "LiteralCtor"
     /\ dim > 1
     /\ Len(last.args) > 0
     /\ \A i \in 1..Len(last.args) : BuiltChildren(last.args)[i].err = "none"
     /\ \E i, j \in 1..Len(last.args) :
           Leaves(BuiltChildren(last.args)[i].val, dim - 1)
             # Leaves(BuiltChildren(last.args)[j].val, dim - 1))
    => (last.err = "RaggedShape" /\ ~Live(last.slot))

\* ------------------------------------------------------------- C2
\* C2: a call on the contents of a rectangular grid (operator[], at(),
\* one-level iteration, traverse, reduce) leaves every extent as it was and
\* the grid rectangular.
C2_ShapeImmutable ==
    [][(/\ last'.op \in ContentOps
        /\ Live(last'.slot)
        /\ Rect(G(last'.slot), dim))
       => (/\ Dims(heap'[ref'[last'.slot]], dim) = Dims(G(last'.slot), dim)
           /\ Rect(heap'[ref'[last'.slot]], dim))]_vars

\* ------------------------------------------------------------- C3
\* C3: a traverse or reduce call that reaches a fixed selector not below the
\* extent of its axis fails with IndexOutOfRange, and the visitor is never
\* called on anything but a leaf of the grid.
C3_FixedOutOfRangeFails ==
    (last.op \in TraversalOps /\ last.args.oob)
    => (/\ last.err = "IndexOutOfRange"
        /\ \A i \in 1..Len(log) : log[i].ref \in Leaves(G(last.slot), dim))

\* ------------------------------------------------------------- C4
\* The coordinates the selectors of the last traversal select in grid self.
Selected(self, dimensions) ==
    {c \in Leaves(self, dim) :
        \A i \in 1..dim : dimensions[i].kind = "Size" => c[i] = dimensions[i].idx}

FixedInRange(self, dimensions) ==
    \A i \in 1..dim :
        dimensions[i].kind = "Size" => dimensions[i].idx < Dims(self, dim)[i]

NoStop == \A i \in 1..Len(log) : ~log[i].stop

Ascending == \A i, j \in 1..Len(log) : i < j => LexLess(log[i].coords, log[j].coords)

\* C4: on a rectangular grid, with the fixed selectors in range and no stop
\* signalled, the visitor gets exactly the selected coordinates, each once,
\* in ascending lexicographic order.
C4_VisitsSelectionInOrder ==
    (/\ last.op \in TraversalOps
     /\ NoStop
     /\ Rect(G(last.slot), dim)
     /\ FixedInRange(G(last.slot), last.args.dimensions))
    => (/\ last.err = "none"
        /\ {log[i].coords : i \in 1..Len(log)}
             = Selected(G(last.slot), last.args.dimensions)
        /\ Len(log) = Cardinality(Selected(G(last.slot), last.args.dimensions))
        /\ Ascending)

C4_Witness ==
    /\ last.op = "reduce"
    /\ dim = 3
    /\ Rect(G(last.slot), dim)
    /\ last.args.dimensions = <<NoDimension, Fixed(1), NoDimension>>
    /\ Len(log) = 4

\* ------------------------------------------------------------- C5
\* C5: in a traverse call no visitor call follows one that returned stop; and
\* when no index went out of range the calls are the selected coordinates in
\* ascending order, cut right after the first stop: every selected coordinate
\* before a visited one is visited, and all are visited if none stopped.
C5_StopEndsTraversal ==
    last.op = "traverse"
    => (/\ \A i \in 1..(Len(log) - 1) : ~log[i].stop
        /\ (~last.args.oob)
           => (/\ Ascending
               /\ \A i \in 1..Len(log) :
                     log[i].coords \in Selected(G(last.slot), last.args.dimensions)
               /\ \A c \in Selected(G(last.slot), last.args.dimensions) :
                     \/ \E i \in 1..Len(log) : log[i].coords = c
                     \/ /\ ~NoStop
                        /\ LexLess(log[Len(log)].coords, c)))

C5_Witness ==
    /\ last.op = "traverse"
    /\ dim = 3
    /\ ~last.args.oob
    /\ last.args.dimensions = <<NoDimension, NoDimension, Fixed(0)>>
    /\ Len(log) = 2
    /\ log[2].stop
    /\ log[2].coords = <<0, 1, 0>>
    /\ Cardinality(Selected(G(last.slot), last.args.dimensions)) = 4

\* ------------------------------------------------------------- C6
\* C6: in every visitor call of traverse or reduce each entry of the
\* coordinate tuple is the position descended on its axis, and the element
\* passed is the leaf of the grid at that coordinate.
C6_CoordsNameTheLeaf ==
    last.op \in TraversalOps
    => \A i \in 1..Len(log) :
          /\ log[i].coords = log[i].ref
          /\ log[i].ref \in Leaves(G(last.slot), dim)

\* ------------------------------------------------------------- C7
\* C7: size-based construction with every extent at least 1 succeeds; the
\* grid reports the k-th extent for axis k and its leaves fill the box of
\* the extents (every child at depth j has the (j+1)-th extent children).
C7_SizeCtorShape ==
    (last.op = "SizeCtor" /\ \A i \in 1..dim : last.args[i] >= 1)
    => (/\ last.err = "none"
        /\ Live(last.slot)
        /\ \A k \in 0..(dim - 1) :
              size(G(last.slot), dim, k) = Ok(last.args[k + 1])
        /\ Leaves(G(last.slot), dim) = Box(last.args))

C7_Witness ==
    /\ last.op = "SizeCtor"
    /\ dim = 3
    /\ last.args = <<1, 2, 1>>
    /\ Live(last.slot)

\* ------------------------------------------------------------- C8
\* C8: size-based construction with a zero extent fails with InvalidShape,
\* a literal with empty outer braces fails with EmptyShape, a failed
\* construction leaves no grid, and every grid there is has size(k) >= 1 on
\* every axis.
C8_NoZeroExtent ==
    /\ (last.op = "SizeCtor" /\ \E i \in 1..dim : last.args[i] = 0)
       => (last.err = "InvalidShape" /\ ~Live(last.slot))
    /\ (last.op = "LiteralCtor" /\ Len(last.args) = 0)
       => (last.err = "EmptyShape" /\ ~Live(last.slot))
    /\ (last.op \in CtorOps /\ last.err # "none") => ~Live(last.slot)
    /\ \A s \in Slots :
          Live(s) => \A k \in 0..(dim - 1) : size(G(s), dim, k).val >= 1

C8_Witness ==
    /\ last.op = "SizeCtor"
    /\ dim = 3
    /\ last.args = <<2, 1, 0>>
    /\ last.err = "InvalidShape"

\* ------------------------------------------------------------- C9
SameExtents(x, y) ==
    \A k \in 0..(dim - 1) : size(x, dim, k) = size(y, dim, k)

\* The coordinates at which one grid has a leaf the other lacks or holds
\* with another value.
Differing(x, y) ==
    {c \in Leaves(x, dim) \cup Leaves(y, dim) :
        \/ c \notin Leaves(x, dim)
        \/ c \notin Leaves(y, dim)
        \/ LeafAt(x, c) # LeafAt(y, c)}

\* C9: operator== returns true iff the extents agree on every axis and the
\* leaves at every coordinate compare equal.
C9_EqualityIsDeep ==
    last.op = "operator=="
    => (last.ret <=> (/\ SameExtents(G(last.slot), G(last.args))
                      /\ Differing(G(last.slot), G(last.args)) = {}))

\* Two grids of one shape that differ in a single leaf compare unequal.
C9_Witness ==
    /\ last.op = "operator=="
    /\ last.slot # last.args
    /\ dim = 3
    /\ ~last.ret
    /\ SameExtents(G(last.slot), G(last.args))
    /\ Cardinality(Differing(G(last.slot), G(last.args))) = 1

\* ------------------------------------------------------------- C10
Other(s) == IF s = "a" THEN "b" ELSE "a"

\* C10: a copy (construction or assignment) equals its source and has its
\* own storage, and a call that writes leaves of one grid (operator[], a
\* mutating traverse or reduce that stays in range) leaves the other grid
\* as it was.
C10_CopyIsIndependent ==
    [][/\ (last'.op \in {"CopyCtor", "CopyAssign"})
          => (/\ Equals(dim, heap'[ref'[last'.slot]], heap'[ref'[last'.args]])
              /\ heap'[ref'[last'.args]] = G(last'.args)
              /\ ref'[last'.slot] # ref'[last'.args])
       /\ (/\ last'.op \in {"operator[]"} \cup TraversalOps
           /\ last'.op \in TraversalOps => ~last'.args.oob
           /\ Live(Other(last'.slot)))
          => (/\ ref' = ref
              /\ heap'[ref'[Other(last'.slot)]] = G(Other(last'.slot)))]_vars

\* A reduce wrote leaves of one of two grids that were equal.
C10_Witness ==
    /\ last.op = "reduce"
    /\ ~last.args.oob
    /\ dim = 3
    /\ Live("a") /\ Live("b")
    /\ SameExtents(G("a"), G("b"))
    /\ Cardinality(Differing(G("a"), G("b"))) = 2

\* ------------------------------------------------------------- C11
\* C11: a traverse call that returns gives true exactly when one of its
\* visitor calls returned stop, whichever mix of iterated and fixed axes lies
\* above the leaf; and it gives false exactly when no visitor call returned
\* stop and every selected coordinate was visited.
C11_ReturnIsStopSignal ==
    (last.op = "traverse" /\ last.err = "none")
    => (/\ last.ret = (\E i \in 1..Len(log) : log[i].stop)
        /\ (last.ret = FALSE)
           = (/\ NoStop
              /\ \A c \in Selected(G(last.slot), last.args.dimensions) :
                    \E i \in 1..Len(log) : log[i].coords = c))

\* A stop signalled by the second visited leaf, below an iterated, a fixed
\* and an iterated axis, came back as the result of traverse.
C11_Witness ==
    /\ last.op = "traverse"
    /\ last.err = "none"
    /\ dim = 3
    /\ ~last.args.oob
    /\ last.args.dimensions = <<NoDimension, Fixed(1), NoDimension>>
    /\ Len(log) = 2
    /\ log[2].stop
    /\ last.ret = TRUE

====
